---- MODULE Spec2Model ----
(***************************************************************************)
(* Express instrumentation: the per-layer span wrapper installed by        *)
(* ExpressInstrumentation._applyPatch (express.ts), as a state machine.    *)
(*                                                                         *)
(* The program state is the framework module (how often each of            *)
(* Router.route, Router.use and application.use is wrapped), the routers'  *)
(* stacks, the layer objects (patched marker, wrapped                      *)
(* handle), the plugin configuration, each request (method, req.route,     *)
(* req.res, the layers store), each response (finish emitted), the         *)
(* ambient root span's name, and one record per invocation of a patched    *)
(* layer handle (the closure variables spanHasEnded, span, the finish      *)
(* listener, the position of the handler).  The handlers and the           *)
(* framework are the environment: they decide which layer is entered,      *)
(* whether a handler returns or throws, when and how often a continuation  *)
(* is called and with what, and when a response emits 'finish'.            *)
(***************************************************************************)
EXTENDS Integers, Sequences, FiniteSets, TLC

VARIABLES mod, stacks, plain, layers, config, req, res, rootSpan, invs, stack,
          open, disc

vars == <<mod, stacks, plain, layers, config, req, res, rootSpan, invs, stack,
          open, disc>>

(***************************************************************************)
(* Bounds of the model.                                                    *)
(***************************************************************************)
MaxInv == 3      \* invocations of patched layer handles
MaxCalls == 2    \* calls of continuations per request
MaxAttach == 2   \* calls of _applyPatch made on layers directly

\* The requests in flight.
Reqs == DOMAIN req

(***************************************************************************)
(* Values.                                                                 *)
(***************************************************************************)
\* ExpressLayerType (types.ts)
MIDDLEWARE == "middleware"
ROUTER == "router"
REQUEST_HANDLER == "request_handler"

\* the JavaScript value undefined, as a layerPath or an element of the store
UNDEFINED == "<undefined>"

\* Array.prototype.join renders undefined as the empty string
Str(p) == IF p = UNDEFINED THEN "" ELSE p

\* a template literal renders undefined as "undefined"
Template(p) == IF p = UNDEFINED THEN "undefined" ELSE p

\* The layer objects of the application: layer.name, the arity of the
\* original layer.handle, the path given when the layer was registered
\* (args[0] when it is a string, else undefined), and the layer whose router
\* holds it in its stack (0: the application's own router).
\*   app.use(logger); app.use('/api', api); api.use('/users', users);
\*   users.route('/:id'); app.use('/items', items); items.use('/', auth);
\*   items.route('/:id'); app.use(errorHandler)
\* and a second handler of the call that mounts auth, when it has one:
\*   items.use('/', auth, validate)
LayerTable ==
  << [name |-> "router",         arity |-> 3, path |-> "/api",    parent |-> 0],
     [name |-> "router",         arity |-> 3, path |-> "/users",  parent |-> 1],
     [name |-> "bound dispatch", arity |-> 3, path |-> "/:id",    parent |-> 2],
     [name |-> "router",         arity |-> 3, path |-> "/items",  parent |-> 0],
     [name |-> "bound dispatch", arity |-> 3, path |-> "/:id",    parent |-> 4],
     [name |-> "logger",         arity |-> 3, path |-> UNDEFINED, parent |-> 0],
     [name |-> "auth",           arity |-> 3, path |-> "/",       parent |-> 4],
     [name |-> "errorHandler",   arity |-> 4, path |-> UNDEFINED, parent |-> 0],
     [name |-> "validate",       arity |-> 3, path |-> "/",       parent |-> 4] >>

\* The layers of the application whose requests are followed.
AppLayers == {l \in DOMAIN LayerTable : LayerTable[l].name # "validate"}

\* The layer objects in existence.
Layers == DOMAIN layers

\* The requests the model draws from: method, matched url, whether the
\* request object carries its response (req.res), and whether the request
\* runs in a context with an ambient span (tracer.getCurrentSpan()).
ReqInputs ==
  { [method |-> "GET",  url |-> "/items/42",    hasRes |-> TRUE,  currentSpan |-> TRUE],
    [method |-> "POST", url |-> "/api/users/7", hasRes |-> FALSE, currentSpan |-> TRUE],
    [method |-> "GET",  url |-> "/items/42",    hasRes |-> TRUE,  currentSpan |-> FALSE] }

\* The configurations the model draws from (ExpressInstrumentationConfig).
Configs ==
  { [ignoreLayers |-> {}, ignoreLayersType |-> {}],
    [ignoreLayers |-> {"request handler"}, ignoreLayersType |-> {MIDDLEWARE}] }

(***************************************************************************)
(* Pure functions of the wrapper.                                          *)
(***************************************************************************)
\* utils.storeLayerPath: push the fragment on the request's layers store
storeLayerPath(store, value) == Append(store, value)

\* Array.prototype.pop: removes the last element, if there is one
ArrayPop(a) == IF a = <<>> THEN a ELSE SubSeq(a, 1, Len(a) - 1)

RECURSIVE join(_)
join(a) == IF a = <<>> THEN "" ELSE Str(Head(a)) \o join(Tail(a))

\* the join without the filter
RouteUnfiltered(store) == join(store)

\* express.ts 204-206: .filter(path => path !== '/').join('')
Route(store) == join(SelectSeq(store, LAMBDA path : path # "/"))

\* utils.getLayerMetadata: display name and type tag of a layer
getLayerMetadata(layer, layerPath) ==
  IF layer.name = "router"
    THEN [name |-> "router - " \o Template(layerPath), type |-> ROUTER]
    ELSE IF layer.name = "bound dispatch"
      THEN [name |-> "request handler", type |-> REQUEST_HANDLER]
      ELSE [name |-> "middleware - " \o layer.name, type |-> MIDDLEWARE]

\* utils.isLayerIgnored
isLayerIgnored(name, type, cfg) ==
  \/ type \in cfg.ignoreLayersType
  \/ name \in cfg.ignoreLayers

\* express.ts 216-221: the two bypass paths
IsBypass(name, type, cfg, currentSpan) ==
  \/ isLayerIgnored(name, type, cfg)
  \/ ~currentSpan

\* a rename on every layer type
RenamesParentAlways(type) == TRUE

\* express.ts 223-226: only the request handler renames the root span
RenamesParent(type) == type = REQUEST_HANDLER

\* the name without the method
ParentNameRouteOnly(method, route) == route

\* express.ts 229: `${req.method} ${route}`
ParentName(method, route) == method \o " " \o route

\* the comparison of line 240 inverted
EndsImmediatelyInverted(type) == type = MIDDLEWARE

\* no span ends on entry
EndsImmediatelyNever(type) == FALSE

\* express.ts 239-242: anything that is not a middleware ends at once
EndsImmediately(type) == type # MIDDLEWARE

\* express.ts 248: the finish listener's guard
FinishEnds(spanHasEnded) == spanHasEnded = FALSE

\* a continuation that ends the span whether or not it has ended
NextEndsAlways(spanHasEnded) == TRUE

\* express.ts 258: the replaced continuation's guard
NextEnds(spanHasEnded) == spanHasEnded = FALSE

\* an error that suppresses every pop
ShouldPopUnlessError(hasRoute, isError) == ~isError

\* express.ts 263: !(req.route && arguments[0] instanceof Error)
ShouldPop(hasRoute, isError) == ~(hasRoute /\ isError)

\* the timestamp taken before the span is created
CaptureThenStart == <<"hrTime", "startSpan">>

\* express.ts 232-235: tracer.startSpan, then hrTime()
StartThenCapture == <<"startSpan", "hrTime">>

\* The calls the patched handle makes from its entry to the call of the
\* original handler, in order (lines 203-270; lines 203-220 on a bypass).
EntryTrace(type, bypass) ==
  IF bypass
    THEN <<"storeLayerPath", "apply">>
    ELSE <<"storeLayerPath">>
           \o (IF RenamesParent(type) THEN <<"updateName">> ELSE <<>>)
           \o StartThenCapture
           \o (IF EndsImmediately(type) THEN <<"end">> ELSE <<>>)
           \o <<"apply">>

\* the plugin's configuration as it was when the layer was attached
ConfigAtAttach(current, atAttach) == atAttach

\* express.ts 216: isLayerIgnored(..., plugin._config) reads the plugin's
\* configuration when the layer is dispatched
DispatchConfig(current, atAttach) == current

\* the arguments of a continuation call: an Error, or none
Arguments(isError) == IF isError THEN <<"Error">> ELSE <<>>

\* a continuation that swallows its arguments
ForwardedNone(arguments) == <<>>

\* express.ts 267: tracer.bind(callback).apply(this, arguments)
Forwarded(arguments) == arguments

\* a listener that hears the finish of every response
ListensToAll(i, r) == TRUE

\* express.ts 277: onResponseFinish of an invocation is registered on req.res
\* of the request the invocation got
Listens(i, r) == i.req = r

\* shimmer's wrap, unwrap and isWrapped on a function slot, by its depth of
\* wrapping: unwrap restores the function that was wrapped, and does nothing
\* to a function that is not wrapped.
Wrap(depth) == depth + 1

Unwrap(depth) == IF depth > 0 THEN depth - 1 ELSE depth

IsWrapped(depth) == depth > 0

\* wrapping on top of whatever is there
PatchPointNoUnwrap(depth) == Wrap(depth)

\* express.ts 84-89, 91-96, 98-107: unwrap if wrapped, then wrap
PatchPoint(depth) == Wrap(IF IsWrapped(depth) THEN Unwrap(depth) ELSE depth)

\* express.ts 132, 155, 178: this.stack[this.stack.length - 1]
LastOf(s) == s[Len(s)]

\* express.ts 135, 158, 181: typeof args[0] === 'string' ? args[0] : undefined
\* (a call without a path has UNDEFINED here already)
PathArg(path) == path

\* _applyPatch without the check of the marker
applyPatchUnmarked(layer, layerPath) ==
  [layer EXCEPT !.patched = TRUE, !.wrapCalls = @ + 1,
                !.layerPath = IF layer.arity = 4 THEN @ ELSE layerPath,
                !.wraps = IF layer.arity = 4 THEN @ ELSE @ + 1]

\* _applyPatch that wraps a handler whatever its number of parameters
applyPatchAnyArity(layer, layerPath) ==
  IF layer.patched THEN layer
  ELSE [layer EXCEPT !.patched = TRUE, !.wrapCalls = @ + 1,
                     !.layerPath = layerPath, !.wraps = @ + 1]

\* express.ts 189-196: _applyPatch on a layer object.  wrapCalls counts the
\* calls of this._wrap(layer, 'handle', ...), wraps the wrappers around the
\* original handle (the wrapper of a handler of four parameters is the
\* original itself, line 195); layerPath is the path the wrapper closes over.
applyPatch(layer, layerPath) ==
  IF layer.patched
    THEN layer
    ELSE [layer EXCEPT !.patched = TRUE,
                       !.wrapCalls = @ + 1,
                       !.layerPath = IF layer.arity = 4 THEN @ ELSE layerPath,
                       !.wraps = IF layer.arity = 4 THEN @ ELSE @ + 1]

\* _applyPatch as called while the plugin holds configuration cfg and the
\* framework is installed or not: attaches, and notes for the properties the
\* configuration of the first call and the number of calls.
Attach(layer, layerPath, cfg) ==
  [applyPatch(layer, layerPath) EXCEPT
     !.cfgAtAttach = IF layer.patched THEN @ ELSE cfg,
     !.attachCalls = @ + 1]

(***************************************************************************)
(* Initial state: the application has registered its layers, each passed   *)
(* once through _applyPatch; one request arrives, none of its layers has   *)
(* been dispatched yet.                                                    *)
(***************************************************************************)
NewLayer(l) ==
  [name |-> LayerTable[l].name, arity |-> LayerTable[l].arity,
   patched |-> FALSE, wraps |-> 0, wrapCalls |-> 0, layerPath |-> UNDEFINED,
   registered |-> FALSE, installedAtPush |-> FALSE,
   cfgAtAttach |-> [ignoreLayers |-> {}, ignoreLayersType |-> {}],
   attachCalls |-> 0]

\* the layer as the original route/use leaves it on a router's stack
Pushed(layer, installed) ==
  [layer EXCEPT !.registered = TRUE, !.installedAtPush = installed]

\* The module with its three extension points wrapped once.
Installed == [route |-> 1, routerUse |-> 1, appUse |-> 1]

\* The routers: 0 is the application's own router, a layer named 'router'
\* is the router mounted by that layer.
Routers(ls) == {0} \cup {l \in ls : LayerTable[l].name = "router"}

RECURSIVE Ascending(_)
Ascending(S) ==
  IF S = {} THEN <<>>
  ELSE LET m == CHOOSE x \in S : \A y \in S : x <= y
       IN <<m>> \o Ascending(S \ {m})

Init ==
  /\ mod = Installed
  /\ config \in Configs
  /\ layers = [l \in AppLayers |->
                 Attach(Pushed(NewLayer(l), TRUE), LayerTable[l].path, config)]
  /\ stacks = [p \in Routers(AppLayers) |->
                 Ascending({l \in AppLayers : LayerTable[l].parent = p})]
  /\ plain = {}
  /\ \E in \in [{1} -> ReqInputs] :
       /\ req = [r \in {1} |->
                  [method |-> in[r].method, url |-> in[r].url,
                   hasRes |-> in[r].hasRes,
                   currentSpan |-> in[r].currentSpan, route |-> FALSE, store |-> <<>>]]
       /\ rootSpan = [r \in {1} |-> [name |-> "HTTP " \o in[r].method]]
  /\ res = [r \in {1} |-> [finished |-> FALSE]]
  /\ invs = <<>>
  /\ stack = <<>>
  /\ open = [r \in {1} |-> <<>>]
  /\ disc = [r \in {1} |-> TRUE]

(***************************************************************************)
(* The patched layer.handle (express.ts 197-279).                          *)
(*                                                                         *)
(* An invocation record holds the closure of one call of the patched       *)
(* handle: bypass (returned through line 217 or 220), started (calls of    *)
(* tracer.startSpan), spanHasEnded, ends (the calls of span.end, by the    *)
(* place that made them), listener (onResponseFinish is registered on the  *)
(* response), phase (the original handler is running, has returned, has    *)
(* thrown), calls (the calls of the continuation handed to the handler,    *)
(* each with the arguments passed on to the original continuation),        *)
(* endTimes (the argument of each span.end), trace (the calls made on      *)
(* entry, in order), cfg (the plugin's configuration at entry).            *)
(* route, entryStore, lenBefore, depth and sawFinish record what the       *)
(* invocation saw, for the properties.                                     *)
(***************************************************************************)
InvsOf(r) == {i \in DOMAIN invs : invs[i].req = r}

\* The framework's dispatch (express Router.handle): a layer is dispatched
\* from the stack that holds it, so when the innermost layer of the request
\* still awaiting its continuation is the router that holds it (or none is
\* awaiting and the layer is in the application's stack); each layer at most
\* once per request; and once an error is being propagated (next(err) or a
\* throw) only error handlers, which are never wrapped, are dispatched.
\* While a handler is running, what is dispatched or called is of its
\* request: another request is served only from the event loop.
SameTurn(r) == stack # <<>> => invs[stack[Len(stack)]].req = r

Errored(r) ==
  \E i \in InvsOf(r) :
    \/ invs[i].phase = "thrown"
    \/ \E k \in DOMAIN invs[i].calls : invs[i].calls[k].isError

Dispatches(r, l) ==
  /\ ~Errored(r)
  /\ SameTurn(r)
  /\ \A i \in InvsOf(r) : invs[i].layer # l
  /\ LET p == IF open[r] = <<>> THEN 0 ELSE invs[open[r][Len(open[r])]].layer
     IN /\ p \in DOMAIN stacks
        /\ \E k \in DOMAIN stacks[p] : stacks[p][k] = l

\* Entry of the patched handle up to the call of the original handler
\* (lines 203-270, or 203-217/220 on a bypass path).  The framework
\* sets req.route when it dispatches a route layer ('bound dispatch').
Enter(r, l) ==
  /\ Len(invs) < MaxInv
  /\ layers[l].wraps > 0
  /\ Dispatches(r, l)
  /\ LET layerPath == layers[l].layerPath
         store == storeLayerPath(req[r].store, layerPath)
         route == Route(store)
         metadata == getLayerMetadata(layers[l], layerPath)
         type == metadata.type
         bypass == IsBypass(metadata.name, type,
                            DispatchConfig(config, layers[l].cfgAtAttach),
                            req[r].currentSpan)
         immediate == ~bypass /\ EndsImmediately(type)
         id == Len(invs) + 1
     IN
       /\ req' = [req EXCEPT ![r].store = store,
                             ![r].route = @ \/ layers[l].name = "bound dispatch"]
       /\ rootSpan' = IF ~bypass /\ RenamesParent(type)
                        THEN [rootSpan EXCEPT ![r].name = ParentName(req[r].method, route)]
                        ELSE rootSpan
       /\ invs' = Append(invs,
            [req |-> r, layer |-> l, type |-> type, name |-> metadata.name,
             bypass |-> bypass,
             cfg |-> config,
             started |-> IF bypass THEN 0 ELSE 1,
             spanHasEnded |-> immediate,
             ends |-> IF immediate THEN <<"immediate">> ELSE <<>>,
             endTimes |-> IF immediate THEN <<"startTime">> ELSE <<>>,
             trace |-> EntryTrace(type, bypass),
             listener |-> FALSE,
             phase |-> "running",
             calls |-> <<>>,
             route |-> route,
             entryStore |-> store,
             lenBefore |-> Len(req[r].store),
             depth |-> Len(open[r]),
             sawFinish |-> FALSE])
       /\ stack' = Append(stack, id)
       /\ open' = [open EXCEPT ![r] = Append(@, id)]
  /\ UNCHANGED <<mod, stacks, plain, layers, config, res, disc>>

\* The original handler returns: line 277 registers the finish listener on
\* req.res (when the request has one); on a bypass path the result of the
\* original handler is returned directly.
Return(i) ==
  /\ stack # <<>>
  /\ i = stack[Len(stack)]
  /\ invs' = [invs EXCEPT ![i].phase = "returned",
                          ![i].listener = ~invs[i].bypass /\ req[invs[i].req].hasRes]
  /\ stack' = SubSeq(stack, 1, Len(stack) - 1)
  /\ UNCHANGED <<mod, stacks, plain, layers, config, req, res, rootSpan, open, disc>>

\* The original handler throws synchronously: the exception leaves the
\* patched handle at line 270 (or 217/220), nothing after it runs.  The
\* framework catches it and propagates the error with the continuation it
\* passed in itself, so the layer no longer awaits its continuation.
Throw(i) ==
  /\ stack # <<>>
  /\ i = stack[Len(stack)]
  /\ invs' = [invs EXCEPT ![i].phase = "thrown"]
  /\ stack' = SubSeq(stack, 1, Len(stack) - 1)
  /\ open' = [open EXCEPT ![invs[i].req] = SelectSeq(@, LAMBDA j : j # i)]
  /\ UNCHANGED <<mod, stacks, plain, layers, config, req, res, rootSpan, disc>>

\* The handlers' calls of continuations: at most MaxCalls per request, and a
\* continuation is called by the handler it was handed to, so not while a
\* layer dispatched below it still awaits its own (calling it again later,
\* when it is no longer awaited, is possible) and not once the handler has
\* thrown.
RECURSIVE SumCalls(_)
SumCalls(S) ==
  IF S = {} THEN 0
  ELSE LET i == CHOOSE j \in S : TRUE IN Len(invs[i].calls) + SumCalls(S \ {i})

Calls(i) ==
  LET r == invs[i].req IN
    /\ SumCalls(InvsOf(r)) < MaxCalls
    /\ SameTurn(r)
    /\ invs[i].phase # "thrown"
    /\ \A k \in DOMAIN open[r] : open[r][k] = i => k = Len(open[r])

\* Bookkeeping of the dispatch order: a continuation call is in order when
\* it is the continuation of the innermost invocation still awaiting one.
CloseOpen(r, i) ==
  /\ open' = [open EXCEPT ![r] = SelectSeq(@, LAMBDA j : j # i)]
  /\ disc' = [disc EXCEPT ![r] = @ /\ open[r] # <<>> /\ open[r][Len(open[r])] = i]

\* The replaced continuation (lines 257-268) is called, synchronously inside
\* the handler or later, with an Error as first argument or not.
CallNext(i, isError) ==
  /\ i \in DOMAIN invs
  /\ ~invs[i].bypass
  /\ Calls(i)
  /\ LET r == invs[i].req
         ending == NextEnds(invs[i].spanHasEnded)
     IN
       /\ invs' = [invs EXCEPT
                     ![i].spanHasEnded = IF ending THEN TRUE ELSE @,
                     ![i].listener = IF ending /\ req[r].hasRes THEN FALSE ELSE @,
                     ![i].ends = IF ending THEN Append(@, "next") ELSE @,
                     ![i].endTimes = IF ending THEN Append(@, "now") ELSE @,
                     ![i].calls = Append(@,
                        [isError |-> isError,
                         afterFinish |-> res[r].finished,
                         hadRoute |-> req[r].route,
                         popped |-> ShouldPop(req[r].route, isError),
                         forwarded |-> <<Forwarded(Arguments(isError))>>])]
       /\ req' = [req EXCEPT ![r].store =
                     IF ShouldPop(req[r].route, isError) THEN ArrayPop(@) ELSE @]
       /\ CloseOpen(r, i)
  /\ UNCHANGED <<mod, stacks, plain, layers, config, res, rootSpan, stack>>

\* On a bypass path the handler got the arguments unmodified (lines 217,
\* 220): calling its continuation runs no code of the wrapper.
CallOriginalNext(i, isError) ==
  /\ i \in DOMAIN invs
  /\ invs[i].bypass
  /\ Calls(i)
  /\ invs' = [invs EXCEPT ![i].calls =
                 Append(@, [isError |-> isError,
                            afterFinish |-> res[invs[i].req].finished,
                            hadRoute |-> req[invs[i].req].route,
                            popped |-> FALSE,
                            forwarded |-> <<Arguments(isError)>>])]
  /\ CloseOpen(invs[i].req, i)
  /\ UNCHANGED <<mod, stacks, plain, layers, config, req, res, rootSpan, stack>>

\* The response emits 'finish' (once, from the event loop): every registered
\* onResponseFinish listener runs (lines 247-252) and, registered with once,
\* is removed.
Finish(r) ==
  /\ stack = <<>>
  /\ InvsOf(r) # {}
  /\ ~res[r].finished
  /\ res' = [res EXCEPT ![r].finished = TRUE]
  /\ invs' = [i \in DOMAIN invs |->
       IF ~Listens(invs[i], r) THEN invs[i]
       ELSE LET ending == invs[i].listener /\ FinishEnds(invs[i].spanHasEnded)
            IN [invs[i] EXCEPT
                  !.spanHasEnded = IF ending THEN TRUE ELSE @,
                  !.ends = IF ending THEN Append(@, "finish") ELSE @,
                  !.endTimes = IF ending THEN Append(@, "startTime") ELSE @,
                  !.listener = FALSE,
                  !.sawFinish = TRUE]]
  /\ UNCHANGED <<mod, stacks, plain, layers, config, req, rootSpan, stack, open, disc>>

Next ==
  \/ \E r \in Reqs, l \in Layers : Enter(r, l)
  \/ \E i \in DOMAIN invs : Return(i)
  \/ \E i \in DOMAIN invs : Throw(i)
  \/ \E i \in DOMAIN invs, isError \in BOOLEAN : CallNext(i, isError)
  \/ \E i \in DOMAIN invs, isError \in BOOLEAN : CallOriginalNext(i, isError)
  \/ \E r \in Reqs : Finish(r)

Spec == Init /\ [][Next]_vars

(***************************************************************************)
(* Installation: patch and unpatch of the module, the three patched        *)
(* registration functions, _applyPatch called on a layer, setConfig.       *)
(* The application registers the layers of InstallLayers, each once, in    *)
(* any order and with the module patched or not.                           *)
(***************************************************************************)
InstallLayers == {4, 5, 7, 8, 9}

\* paths given to a direct call of _applyPatch
AttachPaths == {UNDEFINED, "/other"}

Uninstalled == [route |-> 0, routerUse |-> 0, appUse |-> 0]

InitInstall ==
  /\ mod = Uninstalled
  /\ config \in Configs
  /\ layers = [l \in InstallLayers |-> NewLayer(l)]
  /\ stacks = [p \in Routers(InstallLayers) |-> <<>>]
  /\ plain = {}
  /\ req = [r \in {1} |-> [method |-> "GET", url |-> "/items/42", hasRes |-> TRUE,
                            currentSpan |-> TRUE, route |-> FALSE, store |-> <<>>]]
  /\ rootSpan = [r \in {1} |-> [name |-> "HTTP GET"]]
  /\ res = [r \in {1} |-> [finished |-> FALSE]]
  /\ invs = <<>>
  /\ stack = <<>>
  /\ open = [r \in {1} |-> <<>>]
  /\ disc = [r \in {1} |-> TRUE]

InstallFrame == UNCHANGED <<plain, req, res, rootSpan, invs, stack, open, disc>>

\* the calls of _applyPatch a layer got from the patched registration
\* functions, and those made on it directly
RegistrationCalls(l) ==
  IF ~(layers[l].registered /\ layers[l].installedAtPush) THEN 0
  ELSE IF LayerTable[l].parent = 0 THEN 2 ELSE 1

RECURSIVE DirectCalls(_)
DirectCalls(S) ==
  IF S = {} THEN 0
  ELSE LET l == CHOOSE x \in S : TRUE
       IN (layers[l].attachCalls - RegistrationCalls(l)) + DirectCalls(S \ {l})

\* express.ts 76-110: patch(moduleExports); an undefined or null module is
\* returned as it is.
Patch(defined) ==
  /\ mod' = IF defined
              THEN [route |-> PatchPoint(mod.route),
                    routerUse |-> PatchPoint(mod.routerUse),
                    appUse |-> PatchPoint(mod.appUse)]
              ELSE mod
  /\ UNCHANGED <<stacks, layers, config>>
  /\ InstallFrame

\* express.ts 113-119: unpatch(moduleExports); the handles of the layers
\* attached so far stay wrapped.
Unpatch(defined) ==
  /\ mod' = IF defined
              THEN [route |-> Unwrap(mod.route),
                    routerUse |-> Unwrap(mod.routerUse),
                    appUse |-> Unwrap(mod.appUse)]
              ELSE mod
  /\ UNCHANGED <<stacks, layers, config>>
  /\ InstallFrame

\* express.ts 60-62: setConfig replaces the configuration; no layer is
\* touched.
SetConfig(cfg) ==
  /\ config' = cfg
  /\ UNCHANGED <<mod, stacks, layers>>
  /\ InstallFrame

\* express.ts 189-196 called on a layer object (on a stack or not) with any
\* path argument.
ApplyPatch(l, layerPath) ==
  /\ DirectCalls(Layers) < MaxAttach
  /\ layers' = [layers EXCEPT ![l] = Attach(@, layerPath, config)]
  /\ UNCHANGED <<mod, stacks, config>>
  /\ InstallFrame

\* The framework's router.route(path) or router.use([path,] fn): appends
\* one layer to the stack of the router it is called on.  When the function
\* is wrapped (lines 125-139, 145-163) the wrapper then takes the last
\* layer of that stack and passes it to _applyPatch with the path argument.
PushLayer(ls, l, installed) == [ls EXCEPT ![l] = Pushed(@, installed)]

RECURSIVE PushLayers(_, _, _)
PushLayers(ls, handlers, installed) ==
  IF handlers = <<>> THEN ls
  ELSE PushLayers(PushLayer(ls, Head(handlers), installed), Tail(handlers), installed)

\* The handlers of one call of router.use: one, or two mounted at the same
\* path; the framework appends a layer for each of them, in order.
UseArgs(ls) ==
  LET C == {l \in ls : LayerTable[l].name # "bound dispatch" /\ LayerTable[l].parent # 0}
  IN {<<a>> : a \in C}
       \cup {<<a, b>> : <<a, b>> \in {x \in C \X C :
               /\ x[1] # x[2]
               /\ LayerTable[x[1]].parent = LayerTable[x[2]].parent
               /\ LayerTable[x[1]].path = LayerTable[x[2]].path}}

AttachLast(ls, s, path, depth) ==
  IF IsWrapped(depth)
    THEN [ls EXCEPT ![LastOf(s)] = Attach(@, PathArg(path), config)]
    ELSE ls

RouteCall(l) ==
  /\ LayerTable[l].name = "bound dispatch"
  /\ ~layers[l].registered
  /\ LET p == LayerTable[l].parent
         s == Append(stacks[p], l)
     IN /\ stacks' = [stacks EXCEPT ![p] = s]
        /\ layers' = AttachLast(PushLayer(layers, l, IsWrapped(mod.route)),
                                s, LayerTable[l].path, mod.route)
  /\ UNCHANGED <<mod, config>>
  /\ InstallFrame

RouterUseCall(handlers) ==
  /\ \A k \in DOMAIN handlers : ~layers[handlers[k]].registered
  /\ LET p == LayerTable[handlers[1]].parent
         s == stacks[p] \o handlers
     IN /\ stacks' = [stacks EXCEPT ![p] = s]
        /\ layers' = AttachLast(PushLayers(layers, handlers, IsWrapped(mod.routerUse)),
                                s, LayerTable[handlers[1]].path, mod.routerUse)
  /\ UNCHANGED <<mod, config>>
  /\ InstallFrame

\* The framework's app.use([path,] fn) calls use(path, fn) of the
\* application's router, with '/' when no path was given, through the
\* router's prototype: the wrapper of Router.use, when installed, attaches
\* the layer first; the wrapper of application.use (lines 169-186) then
\* takes the last layer of the application's router.
AppUseCall(l) ==
  /\ LayerTable[l].name # "bound dispatch"
  /\ LayerTable[l].parent = 0
  /\ ~layers[l].registered
  /\ LET s == Append(stacks[0], l)
         mounted == IF LayerTable[l].path = UNDEFINED THEN "/" ELSE LayerTable[l].path
         pushed == PushLayer(layers, l, IsWrapped(mod.appUse))
         delegated == AttachLast(pushed, s, mounted, mod.routerUse)
     IN /\ stacks' = [stacks EXCEPT ![0] = s]
        /\ layers' = AttachLast(delegated, s, LayerTable[l].path, mod.appUse)
  /\ UNCHANGED <<mod, config>>
  /\ InstallFrame

\* The framework dispatches a layer whose handle is the original function
\* (never attached, or a handler of four parameters): no code of the
\* instrumentation runs.
InvokeOriginal(r, l) ==
  /\ layers[l].registered
  /\ layers[l].wraps = 0
  /\ <<r, l>> \notin plain
  /\ plain' = plain \cup {<<r, l>>}
  /\ UNCHANGED <<mod, stacks, layers, config, req, res, rootSpan, invs, stack,
                 open, disc>>

NextInstall ==
  \/ \E defined \in BOOLEAN : Patch(defined)
  \/ \E defined \in BOOLEAN : Unpatch(defined)
  \/ \E l \in Layers : RouteCall(l)
  \/ \E handlers \in UseArgs(Layers) : RouterUseCall(handlers)
  \/ \E l \in Layers : AppUseCall(l)

SpecInstall == InitInstall /\ [][NextInstall]_vars

(***************************************************************************)
(* Attaching and dispatching: with the module patched, the application     *)
(* mounts the layers of AttachLayers with app.use while a request is       *)
(* dispatched through the layers mounted so far; _applyPatch is called on  *)
(* layers again and the configuration is replaced at any moment.           *)
(***************************************************************************)
AttachLayers == {6, 8}

InitAttach ==
  /\ mod = Installed
  /\ config \in Configs
  /\ layers = [l \in AttachLayers |-> NewLayer(l)]
  /\ stacks = [p \in Routers(AttachLayers) |-> <<>>]
  /\ plain = {}
  /\ req = [r \in {1} |-> [method |-> "GET", url |-> "/items/42", hasRes |-> TRUE,
                            currentSpan |-> TRUE, route |-> FALSE, store |-> <<>>]]
  /\ rootSpan = [r \in {1} |-> [name |-> "HTTP GET"]]
  /\ res = [r \in {1} |-> [finished |-> FALSE]]
  /\ invs = <<>>
  /\ stack = <<>>
  /\ open = [r \in {1} |-> <<>>]
  /\ disc = [r \in {1} |-> TRUE]

NextAttach ==
  \/ \E l \in Layers : AppUseCall(l)
  \/ \E l \in Layers, layerPath \in AttachPaths : ApplyPatch(l, layerPath)
  \/ \E cfg \in Configs : SetConfig(cfg)
  \/ \E r \in Reqs, l \in Layers : InvokeOriginal(r, l)
  \/ \E r \in Reqs, l \in Layers : Enter(r, l)
  \/ \E i \in DOMAIN invs : Return(i)
  \/ \E i \in DOMAIN invs : CallNext(i, FALSE)
  \/ \E i \in DOMAIN invs : CallOriginalNext(i, FALSE)

SpecAttach == InitAttach /\ [][NextAttach]_vars

(***************************************************************************)
(* Two requests in flight through the same patched layers.                 *)
(***************************************************************************)
TwoLayers == {4, 6}

InitTwo ==
  /\ mod = Installed
  /\ config = [ignoreLayers |-> {}, ignoreLayersType |-> {}]
  /\ layers = [l \in TwoLayers |->
                 Attach(Pushed(NewLayer(l), TRUE), LayerTable[l].path, config)]
  /\ stacks = [p \in Routers(TwoLayers) |->
                 Ascending({l \in TwoLayers : LayerTable[l].parent = p})]
  /\ plain = {}
  /\ req = [r \in {1, 2} |->
              [method |-> IF r = 1 THEN "GET" ELSE "POST", url |-> "/items/42",
               hasRes |-> TRUE, currentSpan |-> TRUE, route |-> FALSE,
               store |-> <<>>]]
  /\ rootSpan = [r \in {1, 2} |-> [name |-> "HTTP " \o req[r].method]]
  /\ res = [r \in {1, 2} |-> [finished |-> FALSE]]
  /\ invs = <<>>
  /\ stack = <<>>
  /\ open = [r \in {1, 2} |-> <<>>]
  /\ disc = [r \in {1, 2} |-> TRUE]

\* the handlers return and call their continuations without an Error
NextTwo ==
  \/ \E r \in Reqs, l \in Layers : Enter(r, l)
  \/ \E i \in DOMAIN invs : Return(i)
  \/ \E i \in DOMAIN invs : CallNext(i, FALSE)
  \/ \E r \in Reqs : Finish(r)

SpecTwo == InitTwo /\ [][NextTwo]_vars

(***************************************************************************)
(* Properties.                                                             *)
(***************************************************************************)
Spans == {i \in DOMAIN invs : invs[i].started = 1}

Middleware(i) == ~invs[i].bypass /\ invs[i].type = MIDDLEWARE

\* C1: span.end is called at most once on every span started by the layer
\* wrapper, whatever the order of continuation calls and the finish event;
\* the first of the two to fire is the one that ended the span, the other
\* ended nothing.
C1_SpanEndsAtMostOnce ==
  \A i \in Spans :
    /\ Len(invs[i].ends) <= 1
    /\ invs[i].spanHasEnded <=> Len(invs[i].ends) = 1
    /\ Middleware(i) =>
         /\ invs[i].calls # <<>> => invs[i].ends # <<>>
         /\ invs[i].ends = <<"next">> => invs[i].calls # <<>>
         /\ invs[i].ends = <<"finish">> =>
              /\ invs[i].sawFinish
              /\ invs[i].calls # <<>> => invs[i].calls[1].afterFinish

\* finish fired first and ended the span; two continuation calls followed
C1_Witness ==
  \E i \in Spans :
    /\ Middleware(i)
    /\ invs[i].ends = <<"finish">>
    /\ Len(invs[i].calls) = 2

\* C2: no span is leaked: once the response has emitted finish, every span
\* started before it is ended, whether the handler called its continuation
\* (with an Error or not), threw synchronously, or ended the response
\* itself.
C2_NoSpanLeaked ==
  \A i \in Spans :
    (req[invs[i].req].hasRes /\ invs[i].sawFinish) => invs[i].ends # <<>>

C4_EndedByFinish ==
  \A i \in DOMAIN invs :
    (/\ Middleware(i)
     /\ req[invs[i].req].hasRes
     /\ invs[i].calls = <<>>
     /\ invs[i].sawFinish)
      => invs[i].ends = <<"finish">>

\* The segments pushed by the layers of request r that still await their
\* continuation, in the order they were entered.
AwaitedSegments(r) ==
  [k \in 1..Len(open[r]) |-> layers[invs[open[r][k]].layer].layerPath]

\* The whole call of invocation i is over, in dispatch order and without an
\* error: its handler returned, its continuation was called once, and the
\* layers awaiting their continuation are those that did when it was entered.
WholeCallOver(i) ==
  LET r == invs[i].req IN
    /\ invs[i].phase = "returned"
    /\ Len(invs[i].calls) = 1
    /\ disc[r]
    /\ ~Errored(r)
    /\ Len(open[r]) = invs[i].depth
    /\ \A k \in DOMAIN open[r] : open[r][k] < i

\* C5: on a bypass path (ignored layer, or no ambient span) no span is
\* started and, the handler having been invoked with the arguments as they
\* came, the segment pushed on entry is gone when the layer's continuation
\* has been called: the store is as long after the whole call as before it.
C5_BypassLeavesNoSegment ==
  \A i \in DOMAIN invs :
    invs[i].bypass =>
      /\ invs[i].started = 0
      /\ invs[i].ends = <<>>
      /\ WholeCallOver(i) => Len(req[invs[i].req].store) = invs[i].lenBefore

\* the segment removed from a store: its last element, if it has one
WithoutLast(store) == [k \in 1..(IF Len(store) = 0 THEN 0 ELSE Len(store) - 1) |-> store[k]]

\* C6: a call of the replaced continuation leaves the store unchanged when
\* its first argument is an Error and the request has a matched route, and
\* removes the last segment in every other case (an Error without a matched
\* route, a matched route without an Error, neither).
C6_PopRule ==
  [][\A i \in DOMAIN invs :
       (~invs[i].bypass /\ Len(invs'[i].calls) = Len(invs[i].calls) + 1) =>
         LET r == invs[i].req
             call == invs'[i].calls[Len(invs'[i].calls)]
         IN IF call.isError /\ req[r].route
              THEN req'[r].store = req[r].store
              ELSE /\ req'[r].store = WithoutLast(req[r].store)
                   /\ req[r].store # <<>> => Len(req'[r].store) = Len(req[r].store) - 1]_vars

\* a request handler's continuation was called with an Error after its route
\* matched, and the store is as the handler's entry left it
C6_Witness ==
  \E i \in DOMAIN invs :
    /\ ~invs[i].bypass
    /\ invs[i].type = REQUEST_HANDLER
    /\ Len(invs[i].calls) = 1
    /\ invs[i].calls[1].isError
    /\ req[invs[i].req].route
    /\ req[invs[i].req].store = invs[i].entryStore

\* C7: while the continuations fire in dispatch order and none with an
\* Error, the store holds exactly the segments of the layers still awaiting
\* their continuation, in entry order (so segments leave in reverse order of
\* entry, each removed by its own layer's continuation), and it is empty
\* when no layer awaits its continuation any more.
C7_PushesAndPopsBalanced ==
  \A r \in Reqs :
    (disc[r] /\ ~Errored(r)) => req[r].store = AwaitedSegments(r)

\* the concatenation of the segments that are not "/", built from the end
\* (an undefined segment contributes nothing)
RECURSIVE ConcatSegments(_)
ConcatSegments(store) ==
  IF Len(store) = 0 THEN ""
  ELSE LET last == store[Len(store)]
       IN ConcatSegments(SubSeq(store, 1, Len(store) - 1))
            \o (IF last = "/" \/ last = UNDEFINED THEN "" ELSE last)

\* C8: the route computed on entry is the in-order concatenation of the
\* segments of the store that are not "/"; entered through "/api", "/users",
\* "/:id" it is "/api/users/:id".
C8_RouteIsConcatenation ==
  \A i \in DOMAIN invs :
    /\ invs[i].route = ConcatSegments(invs[i].entryStore)
    /\ invs[i].entryStore = <<"/api", "/users", "/:id">>
         => invs[i].route = "/api/users/:id"

C8_Witness ==
  \E i \in DOMAIN invs :
    /\ invs[i].type = REQUEST_HANDLER
    /\ invs[i].entryStore = <<"/api", "/users", "/:id">>
    /\ invs[i].route = "/api/users/:id"

\* the layer is instrumented for the request: ambient span, not ignored
Instrumented(r, l) ==
  LET metadata == getLayerMetadata(layers[l], layers[l].layerPath)
  IN req[r].currentSpan /\ ~isLayerIgnored(metadata.name, metadata.type, config)

\* C9: the ambient span of a request is renamed exactly by the entry of an
\* instrumented request-handler layer, to "<method> <route>" with the route
\* of the store that already holds the layer's own fragment and from which
\* the layer has popped nothing; no other step renames it.
C9_RenameOnRequestHandler ==
  [][\A r \in Reqs :
       LET n == Len(invs')
           entered == n = Len(invs) + 1 /\ invs'[n].req = r
           l == invs'[n].layer
       IN IF entered /\ LayerTable[l].name = "bound dispatch" /\ Instrumented(r, l)
            THEN /\ req'[r].store = Append(req[r].store, LayerTable[l].path)
                 /\ invs'[n].calls = <<>>
                 /\ rootSpan'[r].name =
                      req[r].method \o " " \o ConcatSegments(req'[r].store)
            ELSE rootSpan'[r] = rootSpan[r]]_vars

C9_Witness ==
  \E i \in DOMAIN invs :
    /\ ~invs[i].bypass
    /\ invs[i].type = REQUEST_HANDLER
    /\ Len(invs[i].entryStore) = 3
    /\ rootSpan[invs[i].req].name = "POST /api/users/:id"

\* The request handler of request r entered last through "/items", "/:id".
ItemsHandler(i) ==
  /\ ~invs[i].bypass
  /\ invs[i].type = REQUEST_HANDLER
  /\ req[invs[i].req].url = "/items/42"
  /\ invs[i].entryStore = <<"/items", "/:id">>
  /\ \A j \in InvsOf(invs[i].req) : j > i => invs[j].type # REQUEST_HANDLER

\* C10 as stated: for a request matched as "/items/42" under the fragments
\* "/items", "/:id", the ambient span is named "<METHOD> /items/42" after the
\* request handler was dispatched.
C10_NamedAfterMatchedPath ==
  \A i \in DOMAIN invs :
    ItemsHandler(i) =>
      rootSpan[invs[i].req].name = req[invs[i].req].method \o " " \o req[invs[i].req].url

\* C10 amended: it is named after the fragments, "<METHOD> /items/:id".
C10_NamedAfterFragments ==
  \A i \in DOMAIN invs :
    ItemsHandler(i) =>
      rootSpan[invs[i].req].name = req[invs[i].req].method \o " /items/:id"

C10_Witness ==
  \E i \in DOMAIN invs :
    /\ ItemsHandler(i)
    /\ rootSpan[invs[i].req].name = "GET /items/:id"

(***************************************************************************)
(* Properties of attaching and installing.                                 *)
(***************************************************************************)
InvsOfLayer(l) == {i \in DOMAIN invs : invs[i].layer = l}

\* C11: however often _applyPatch is applied to a layer object, with the
\* same or different paths, the layer's handle carries one interception:
\* the marker is set by the first call, the handle is wrapped once, a later
\* call changes nothing of the layer, and one dispatch of the layer pushes
\* one segment and starts at most one span.
C11_AttachIdempotent ==
  /\ [](\A l \in Layers :
         /\ layers[l].patched <=> layers[l].attachCalls > 0
         /\ layers[l].patched => layers[l].wrapCalls = 1
         /\ layers[l].wraps <= 1
         /\ \A i \in InvsOfLayer(l) :
              /\ Len(invs[i].entryStore) = invs[i].lenBefore + 1
              /\ invs[i].started <= 1)
  /\ [][\A l \in Layers :
         layers[l].patched =>
           /\ layers'[l].patched
           /\ layers'[l].wraps = layers[l].wraps
           /\ layers'[l].wrapCalls = layers[l].wrapCalls
           /\ layers'[l].layerPath = layers[l].layerPath]_vars

\* a layer attached directly with one path, then twice by app.use with
\* others, has been dispatched and started its span
C11_Witness ==
  \E i \in DOMAIN invs :
    /\ layers[invs[i].layer].attachCalls >= 3
    /\ layers[invs[i].layer].layerPath = "/other"
    /\ invs[i].started = 1

\* C12: a layer whose original handler declares four parameters is never
\* wrapped: after _applyPatch its handle is the original function, and
\* invoking it pushes no segment, starts no span, registers no listener and
\* replaces no continuation.
C12_FourParametersNeverWrapped ==
  /\ [](\A l \in Layers :
         layers[l].arity = 4 => layers[l].wraps = 0 /\ InvsOfLayer(l) = {})
  /\ [][\A r \in Reqs, l \in Layers :
         (layers[l].arity = 4 /\ <<r, l>> \in plain' \ plain) =>
           UNCHANGED <<req, res, rootSpan, invs, stack, open>>]_vars

\* the error handler has been attached and then invoked
C12_Witness ==
  \E r \in Reqs, l \in Layers :
    /\ layers[l].arity = 4
    /\ layers[l].patched
    /\ <<r, l>> \in plain

\* C13: with the module patched, every layer pushed on a router's or the
\* application's stack by route, Router.use or application.use has passed
\* through _applyPatch and carries exactly one interception.
C13_EveryPushedLayerAttached ==
  \A l \in Layers :
    (layers[l].registered /\ layers[l].installedAtPush) =>
      /\ layers[l].patched
      /\ layers[l].wrapCalls = 1
      /\ layers[l].wraps = IF layers[l].arity = 4 THEN 0 ELSE 1

\* C14: over any sequence of patch and unpatch the depth of wrapping of
\* Router.route, Router.use and application.use is 0 or 1: patch leaves all
\* three at 1, unpatch leaves all three at 0.
C14_WrapDepthAtMostOne ==
  /\ [](mod \in {Uninstalled, Installed})
  /\ [][/\ Patch(TRUE) => mod' = Installed
        /\ Unpatch(TRUE) => mod' = Uninstalled]_vars

\* patched, a layer registered, unpatched, another registered, patched again
C14_Witness ==
  /\ mod = Installed
  /\ \E l \in Layers : layers[l].registered /\ layers[l].installedAtPush
  /\ \E l \in Layers : layers[l].registered /\ ~layers[l].installedAtPush
  /\ \E p \in DOMAIN stacks :
       /\ Len(stacks[p]) = 2
       /\ layers[stacks[p][1]].installedAtPush
       /\ ~layers[stacks[p][2]].installedAtPush

\* C20: whether an invocation starts a span or is bypassed is decided
\* against the configuration the plugin holds when the layer is dispatched,
\* not the one it held when the layer was attached; setConfig re-attaches
\* nothing and leaves the layers and their markers as they are.
C20_IgnoreReadsCurrentConfig ==
  /\ [](\A i \in DOMAIN invs :
         /\ invs[i].bypass = IsBypass(invs[i].name, invs[i].type, invs[i].cfg,
                                      req[invs[i].req].currentSpan)
         /\ invs[i].started = IF invs[i].bypass THEN 0 ELSE 1
         /\ layers[invs[i].layer].patched
         /\ layers[invs[i].layer].wrapCalls = 1)
  /\ [][config' # config => layers' = layers]_vars

\* setConfig came between the attach and the dispatch of a layer, and the
\* invocation went the way the new configuration says, not the old one
C20_Witness ==
  \E i \in DOMAIN invs :
    /\ invs[i].cfg # layers[invs[i].layer].cfgAtAttach
    /\ invs[i].bypass = isLayerIgnored(invs[i].name, invs[i].type, invs[i].cfg)
    /\ invs[i].bypass # isLayerIgnored(invs[i].name, invs[i].type,
                                       layers[invs[i].layer].cfgAtAttach)

(***************************************************************************)
(* Properties of the replaced continuation and of the order of the calls   *)
(* made on entry.                                                          *)
(***************************************************************************)
\* position of the first call e in a trace, 0 when it is not made
Pos(trace, e) ==
  IF \E k \in DOMAIN trace : trace[k] = e
    THEN CHOOSE k \in DOMAIN trace :
           trace[k] = e /\ \A j \in 1..(k - 1) : trace[j] # e
    ELSE 0

\* C15: every call of a replaced continuation calls the original
\* continuation exactly once, with the arguments it received: an Error first
\* argument arrives as it was given.
C15_ArgumentsForwardedUnchanged ==
  \A i \in DOMAIN invs :
    \A k \in DOMAIN invs[i].calls :
      invs[i].calls[k].forwarded = <<Arguments(invs[i].calls[k].isError)>>

\* a replaced continuation got an Error in a route, kept the segment and
\* passed the Error on
C15_Witness ==
  \E i \in DOMAIN invs :
    /\ ~invs[i].bypass
    /\ \E k \in DOMAIN invs[i].calls :
         /\ invs[i].calls[k].isError
         /\ ~invs[i].calls[k].popped
         /\ invs[i].calls[k].forwarded = << <<"Error">> >>

\* C17: the span of a layer that is not a middleware is ended with the
\* captured start time right after it is started and before the original
\* handler is called; no continuation call and no finish ends it again,
\* while its continuation still pops by the pop rule and forwards.
C17_NonMiddlewareEndsAtOnce ==
  \A i \in DOMAIN invs :
    (~invs[i].bypass /\ invs[i].type # MIDDLEWARE) =>
      /\ invs[i].ends = <<"immediate">>
      /\ invs[i].endTimes = <<"startTime">>
      /\ invs[i].spanHasEnded
      /\ 0 < Pos(invs[i].trace, "startSpan")
      /\ Pos(invs[i].trace, "startSpan") < Pos(invs[i].trace, "end")
      /\ Pos(invs[i].trace, "end") < Pos(invs[i].trace, "apply")
      /\ \A k \in DOMAIN invs[i].calls :
           /\ invs[i].calls[k].popped =
                ShouldPop(invs[i].calls[k].hadRoute, invs[i].calls[k].isError)
           /\ invs[i].calls[k].forwarded = <<Arguments(invs[i].calls[k].isError)>>

\* a router's continuation was called and popped, the response finished,
\* and the span has its one end from the entry
C17_Witness ==
  \E i \in DOMAIN invs :
    /\ ~invs[i].bypass
    /\ invs[i].type = ROUTER
    /\ invs[i].sawFinish
    /\ invs[i].ends = <<"immediate">>
    /\ \E k \in DOMAIN invs[i].calls : invs[i].calls[k].popped

\* C18 as stated: within an instrumented invocation the start timestamp is
\* captured before the span is created.
C18_TimestampBeforeSpan ==
  \A i \in DOMAIN invs :
    ~invs[i].bypass =>
      /\ 0 < Pos(invs[i].trace, "hrTime")
      /\ Pos(invs[i].trace, "hrTime") < Pos(invs[i].trace, "startSpan")

\* C18 amended: the span is created first and the timestamp is captured
\* right after it, before any end of the span and before the original
\* handler is called.
C18_TimestampAfterSpan ==
  \A i \in DOMAIN invs :
    ~invs[i].bypass =>
      /\ 0 < Pos(invs[i].trace, "startSpan")
      /\ Pos(invs[i].trace, "hrTime") = Pos(invs[i].trace, "startSpan") + 1
      /\ Pos(invs[i].trace, "hrTime") < Pos(invs[i].trace, "apply")
      /\ Pos(invs[i].trace, "end") # 0 =>
           Pos(invs[i].trace, "hrTime") < Pos(invs[i].trace, "end")

\* an instrumented middleware and an instrumented request handler have been
\* entered
C18_Witness ==
  /\ \E i \in DOMAIN invs : ~invs[i].bypass /\ invs[i].type = MIDDLEWARE
  /\ \E i \in DOMAIN invs : ~invs[i].bypass /\ invs[i].type = REQUEST_HANDLER

\* C19: once the replaced continuation of an invocation has ended the span,
\* whether it was called inside the handler or later, no finish listener of
\* that invocation is registered on the response.
C19_NoListenerAfterContinuation ==
  \A i \in DOMAIN invs :
    (invs[i].ends = <<"next">> /\ invs[i].phase = "returned") => ~invs[i].listener

(***************************************************************************)
(* Properties of requests in flight together.                              *)
(***************************************************************************)
\* what the wrapper keeps for one request: the request object with its
\* layers store, its response, its ambient span, and the closures of the
\* invocations made for it
ReqState(r) ==
  <<req[r], res[r], rootSpan[r], [i \in InvsOf(r) |-> invs[i]]>>

\* C16: with requests interleaved through the same patched layers, a step
\* of one request (an entry with its push, a continuation call with its pop
\* and span end, a finish) leaves the store, the flags, the listeners and
\* the spans of every other request as they are; a span is ended by finish
\* only when its own response has finished.
C16_RequestsIsolated ==
  /\ [](\A i \in DOMAIN invs :
         (invs[i].sawFinish \/ invs[i].ends = <<"finish">>)
           => res[invs[i].req].finished)
  /\ [][\A a \in Reqs, b \in Reqs :
         (a # b /\ ReqState(a)' # ReqState(a)) => ReqState(b)' = ReqState(b)]_vars

\* the first request has finished and its middleware span was ended by its
\* finish, while the middleware span of the second, entered through the same
\* layer, is open with its segment on the store and its listener registered
C16_Witness ==
  \E i \in InvsOf(1), j \in InvsOf(2) :
    /\ invs[i].layer = invs[j].layer
    /\ Middleware(i) /\ Middleware(j)
    /\ res[1].finished /\ invs[i].ends = <<"finish">>
    /\ ~res[2].finished /\ invs[j].ends = <<>> /\ invs[j].listener
    /\ req[2].store # <<>>
    /\ j < i


====
